---- MODULE Spec2Model ----
(***************************************************************************)
(* Weather and NDVI data API (src/api.py): the request validation, the two *)
(* reducers and the get_data pipeline that merges them.                    *)
(*                                                                         *)
(* Numbers that the code keeps as floats are modelled as integers tagged   *)
(* "float"; a quotient x / y is kept as the pair [n |-> x, d |-> y].       *)
(***************************************************************************)
EXTENDS Integers, Sequences, FiniteSets, TLC

VARIABLES
    pc,            \* where get_data stands: idle, Validating, FetchingWeather, ...
    req,           \* the JSON body of the request being served
    errors,        \* get_data's local `errors` (line 168)
    weather_data,  \* get_data's local `weather_data` (line 178)
    ndvi_data,     \* get_data's local `ndvi_data` (line 189)
    response,      \* get_data's local `response` (lines 162-165)
    reply,         \* what get_data returned: status code and JSON body
    wresp,         \* the weather provider's HTTP answer (line 68)
    eeans,         \* the imagery provider's answer to getInfo (line 148)
    ee_initialized,\* ee.data._initialized, process-wide (lines 8, 120-121)
    weather_calls, \* requests sent to the weather provider in this request
    ndvi_calls,    \* queries sent to the imagery provider in this request
    stages,        \* the stages run in this request, in order
    weatherMemo,   \* the answers a deterministic weather provider has given
    ndviMemo,      \* the answers a deterministic imagery provider has given
    seen,          \* the first reply given to each body
    served         \* number of requests received

vars == <<pc, req, errors, weather_data, ndvi_data, response, reply, wresp,
          eeans, ee_initialized, weather_calls, ndvi_calls, stages,
          weatherMemo, ndviMemo, seen, served>>

---------------------------------------------------------------------------
(* Bounds of the model *)

MaxPoints == 5      \* longest coordinates list drawn
MaxBad == 2         \* most malformed points in a coordinates list drawn
MaxExtra == 1       \* most hourly entries past the 24th in a series drawn
MaxRequests == 3    \* requests served in the idempotence specification

(* Program constants *)

MinPoints == 4      \* len(coordinates) < 4
HoursPerDay == 24   \* [:24], [0]*24
StatusOK == 200
StatusBadRequest == 400

---------------------------------------------------------------------------
(* JSON values as request.json delivers them.  Every value is a record of  *)
(* the same shape: t is the Python type, n the number, s the characters of *)
(* a string, l the items of a list.                                        *)

JNull == [t |-> "null", n |-> 0, s |-> <<>>, l |-> <<>>]
JFloat(x) == [t |-> "float", n |-> x, s |-> <<>>, l |-> <<>>]
JInt(x) == [t |-> "int", n |-> x, s |-> <<>>, l |-> <<>>]
JStr(chars) == [t |-> "str", n |-> 0, s |-> chars, l |-> <<>>]
JList(items) == [t |-> "list", n |-> 0, s |-> <<>>, l |-> items]

(* A request body: a mapping with the two keys (a missing key reads as     *)
(* None through .get), or something that is not a mapping.                 *)
Body(c, d) == [mapping |-> TRUE, coordinates |-> c, date |-> d]
NotAMapping == [mapping |-> FALSE, coordinates |-> JNull, date |-> JNull]

(* An error string: the operation-name prefix (empty when the message has  *)
(* none), the message, and the point number formatted into it (0: none).   *)
Err(prefix, msg, point) == [prefix |-> prefix, msg |-> msg, point |-> point]

---------------------------------------------------------------------------
(* datetime.strptime(date, "%Y-%m-%d"), line 38.  The format compiles to   *)
(*   (?P<Y>\d\d\d\d)-(?P<m>1[0-2]|0[1-9]|[1-9])-                           *)
(*   (?P<d>3[0-1]|[1-2]\d|0[1-9]|[1-9]| [1-9])                             *)
(* matched at the start of the string; text left after the match, or a     *)
(* day the month does not have, is a ValueError; a non-string a TypeError. *)

Digits == {"0", "1", "2", "3", "4", "5", "6", "7", "8", "9"}
NonZeroDigits == Digits \ {"0"}

DigitVal(c) ==
    CASE c = "0" -> 0 [] c = "1" -> 1 [] c = "2" -> 2 [] c = "3" -> 3
      [] c = "4" -> 4 [] c = "5" -> 5 [] c = "6" -> 6 [] c = "7" -> 7
      [] c = "8" -> 8 [] c = "9" -> 9 [] OTHER -> 0

At(s, i) == IF i >= 1 /\ i <= Len(s) THEN s[i] ELSE ""

RECURSIVE ToInt(_)
ToInt(s) ==
    IF s = <<>> THEN 0
    ELSE 10 * ToInt(SubSeq(s, 1, Len(s) - 1)) + DigitVal(s[Len(s)])

(* The lengths the month alternation can match at position i, in the       *)
(* order the regex tries its alternatives.                                 *)
MonthMatches(s, i) ==
    (IF At(s, i) = "1" /\ At(s, i + 1) \in {"0", "1", "2"} THEN <<2>> ELSE <<>>)
    \o (IF At(s, i) = "0" /\ At(s, i + 1) \in NonZeroDigits THEN <<2>> ELSE <<>>)
    \o (IF At(s, i) \in NonZeroDigits THEN <<1>> ELSE <<>>)

DayMatches(s, i) ==
    (IF At(s, i) = "3" /\ At(s, i + 1) \in {"0", "1"} THEN <<2>> ELSE <<>>)
    \o (IF At(s, i) \in {"1", "2"} /\ At(s, i + 1) \in Digits THEN <<2>> ELSE <<>>)
    \o (IF At(s, i) = "0" /\ At(s, i + 1) \in NonZeroDigits THEN <<2>> ELSE <<>>)
    \o (IF At(s, i) \in NonZeroDigits THEN <<1>> ELSE <<>>)
    \o (IF At(s, i) = " " /\ At(s, i + 1) \in NonZeroDigits THEN <<2>> ELSE <<>>)

IsLeap(y) == (y % 4 = 0 /\ y % 100 # 0) \/ y % 400 = 0

DaysInMonth(y, m) ==
    IF m = 2 THEN (IF IsLeap(y) THEN 29 ELSE 28)
    ELSE IF m \in {4, 6, 9, 11} THEN 30 ELSE 31

NoDate == [ok |-> FALSE, year |-> 0, month |-> 0, day |-> 0]

strptime(date) ==
    IF date.t # "str" THEN NoDate
    ELSE
        LET s == date.s
            yearOK == \A i \in 1..4 : At(s, i) \in Digits
            \* the month alternatives after which "-" and a day match
            months == SelectSeq(MonthMatches(s, 6),
                          LAMBDA k : At(s, 6 + k) = "-"
                                     /\ DayMatches(s, 7 + k) # <<>>)
        IN  IF ~yearOK \/ At(s, 5) # "-" \/ months = <<>> THEN NoDate
            ELSE
                LET mlen == Head(months)
                    dpos == 7 + mlen
                    dlen == Head(DayMatches(s, dpos))
                    year == ToInt(SubSeq(s, 1, 4))
                    month == ToInt(SubSeq(s, 6, 5 + mlen))
                    day == ToInt(SelectSeq(SubSeq(s, dpos, dpos + dlen - 1),
                                           LAMBDA c : c # " "))
                IN  IF dpos + dlen - 1 # Len(s) THEN NoDate
                    ELSE IF year < 1 \/ day > DaysInMonth(year, month) THEN NoDate
                    ELSE [ok |-> TRUE, year |-> year, month |-> month, day |-> day]

---------------------------------------------------------------------------
(* validate_request, lines 12-44 *)

CoordinatesError == Err("", "Coordinates must be a list with at least 4 points.", 0)
PointShapeError(i) == Err("", "Point is not a list of two elements.", i)
PointFloatError(i) == Err("", "Point must contain two floats (lon, lat).", i)
DateError == Err("", "Date must be a valid string in 'YYYY-MM-DD' format.", 0)
ValidateException == Err("validate_request", "'list' object has no attribute 'get'", 0)

(* a list that outlives the call, as a default argument does: the errors  *)
(* of the call before are still in it                                      *)
StaleErrors == errors

(* errors = [], line 18 *)
NewErrors == <<>>

(* lines 30-35, for the point at index i (counted from 1, as i+1 is) *)
PointErrors(point, i) ==
    IF ~(point.t = "list" /\ Len(point.l) = 2) THEN <<PointShapeError(i)>>
    ELSE IF ~(point.l[1].t = "float" /\ point.l[2].t = "float")
         THEN <<PointFloatError(i)>>
         ELSE <<>>

RECURSIVE AllPointErrors(_, _)
AllPointErrors(points, i) ==
    IF i > Len(points) THEN <<>>
    ELSE PointErrors(points[i], i) \o AllPointErrors(points, i + 1)

(* lines 25-35 *)
CoordinateErrors(coordinates) ==
    IF coordinates.t # "list" \/ Len(coordinates.l) < MinPoints
    THEN <<CoordinatesError>>
    ELSE AllPointErrors(coordinates.l, 1)

(* lines 37-40 *)
DateErrors(date) == IF strptime(date).ok THEN <<>> ELSE <<DateError>>

validate_request(body) ==
    IF ~body.mapping
    THEN NewErrors \o <<ValidateException>>
    ELSE NewErrors \o CoordinateErrors(body.coordinates) \o DateErrors(body.date)

---------------------------------------------------------------------------
(* get_open_meteo_weather, lines 48-105.  `api` is what requests.get and   *)
(* response.json() deliver for the URL: the status code, whether the body  *)
(* parses as JSON, whether it has the key "hourly", and the four series,   *)
(* each present or absent.                                                 *)

Series(present, values) == [present |-> present, v |-> values]
AbsentSeries == Series(FALSE, <<>>)

ApiResponse(status, json, hourly, t, h, w, e) ==
    [status |-> status, json |-> json, hourly |-> hourly,
     temperature_2m |-> t, relativehumidity_2m |-> h,
     wind_speed_10m |-> w, et0_fao_evapotranspiration |-> e]

(* A Python number: the quotient n / d; d = 0 stands for None. *)
Num(n, d) == [n |-> n, d |-> d]
PyNone == Num(0, 0)

EmptyDict == [k \in {} |-> PyNone]

(* dict.update *)
Update(dict, other) ==
    [k \in DOMAIN dict \cup DOMAIN other |->
        IF k \in DOMAIN other THEN other[k] ELSE dict[k]]

(* lines 60-65: the query string *)
WeatherUrl(lat, lon, date) ==
    [latitude |-> lat, longitude |-> lon, start |-> date, end |-> date]

(* the series unsliced *)
WholeSeries(series) == series

(* series[:24] *)
HourlySlice(series) ==
    SubSeq(series, 1, IF Len(series) < HoursPerDay THEN Len(series) ELSE HoursPerDay)

(* [0]*24 *)
Zeros == [i \in 1..HoursPerDay |-> 0]

(* sum(series) *)
RECURSIVE Sum(_)
Sum(series) == IF series = <<>> THEN 0 ELSE Head(series) + Sum(Tail(series))

(* sum(series) / len(series), lines 85-87 *)
Mean(series) == Num(Sum(series), Len(series))

(* sum(et0), line 90 *)
Total(series) == Num(Sum(series), 1)

WeatherError(msg) == Err("get_open_meteo_weather", msg, 0)

(* the exception swallowed: nothing appended *)
WeatherFailureSwallowed(msg) == [data |-> EmptyDict, errors |-> <<>>]

(* the except clause, lines 102-103: response_ as built at line 57 with    *)
(* one error appended                                                      *)
WeatherFailure(msg) == [data |-> EmptyDict, errors |-> <<WeatherError(msg)>>]

get_open_meteo_weather(lat, lon, date, api) ==
    IF api.status # StatusOK THEN WeatherFailure("Failed to fetch data")
    ELSE IF ~api.json THEN WeatherFailure("Expecting value")
    ELSE IF ~api.hourly THEN WeatherFailure("'hourly'")
    ELSE IF ~api.temperature_2m.present THEN WeatherFailure("'temperature_2m'")
    ELSE IF ~api.relativehumidity_2m.present
         THEN WeatherFailure("'relativehumidity_2m'")
    ELSE IF ~api.wind_speed_10m.present THEN WeatherFailure("'wind_speed_10m'")
    ELSE
        LET temperature == HourlySlice(api.temperature_2m.v)
            humidity == HourlySlice(api.relativehumidity_2m.v)
            wind_speed == HourlySlice(api.wind_speed_10m.v)
            et0 == HourlySlice(IF api.et0_fao_evapotranspiration.present
                               THEN api.et0_fao_evapotranspiration.v
                               ELSE Zeros)
        IN  IF Len(temperature) = 0 \/ Len(humidity) = 0 \/ Len(wind_speed) = 0
            THEN WeatherFailure("division by zero")
            ELSE [data |-> ("mean_temperature_2m_C" :> Mean(temperature))
                           @@ ("mean_humidity_2m_%" :> Mean(humidity))
                           @@ ("mean_wind_speed_10m_m_s" :> Mean(wind_speed))
                           @@ ("sum_et0_mm" :> Total(et0)),
                  errors |-> <<>>]

---------------------------------------------------------------------------
(* get_ndvi_data, lines 109-156.  `ans` is what the imagery provider       *)
(* answers to getInfo(): a failure of the service, no scene in the window  *)
(* (normalizedDifference of nothing fails), or the mean over the polygon,  *)
(* which is None when the scene has no pixel there.                        *)

EEAnswer(failure, scene, mean) == [failure |-> failure, scene |-> scene, mean |-> mean]

(* lines 124-146: the window, the polygon and the reduction asked for *)
NdviQuery(coordinates, date) ==
    [collection |-> "COPERNICUS/S2", polygon |-> coordinates, date |-> date,
     from |-> -1, to |-> 1, sort |-> "CLOUDY_PIXEL_PERCENTAGE",
     bands |-> <<"B8", "B4">>, scale |-> 10]

(* lines 120-121: ee.Initialize() unless the session is initialized *)
LazilyInitialized(initialized) == IF ~initialized THEN TRUE ELSE initialized

NdviError(msg) == Err("get_ndvi_data", msg, 0)

NdviFailure(msg) == [data |-> EmptyDict, errors |-> <<NdviError(msg)>>]

get_ndvi_data(coordinates, date, ans) ==
    IF ans.failure THEN NdviFailure("Earth Engine request failed")
    ELSE IF ~ans.scene THEN NdviFailure("Parameter 'input' is required")
    ELSE [data |-> ("ndvi_mean" :> ans.mean), errors |-> <<>>]

---------------------------------------------------------------------------
(* get_data, lines 160-199 *)

(* lines 162-165 *)
NewResponse == [status |-> "success", data |-> EmptyDict]

NoReply == [status |-> 0, kind |-> "none", data |-> EmptyDict, errors |-> <<>>]

(* only the first error reported *)
FirstErrorReply(errs) ==
    [status |-> StatusBadRequest, kind |-> "errors", data |-> EmptyDict,
     errors |-> <<Head(errs)>>]

(* jsonify({"errors": errs}), 400: lines 170, 180, 191 *)
ErrorsReply(errs) ==
    [status |-> StatusBadRequest, kind |-> "errors", data |-> EmptyDict, errors |-> errs]

(* jsonify({"error": str(e)}), 400: line 199 *)
ErrorReply ==
    [status |-> StatusBadRequest, kind |-> "error", data |-> EmptyDict, errors |-> <<>>]

(* jsonify(response), 200: line 196 *)
SuccessReply(resp) ==
    [status |-> StatusOK, kind |-> resp.status, data |-> resp.data, errors |-> <<>>]

(* the checks of lines 169, 179 and 190 left out *)
ValidationNeverFailed(errs) == FALSE
WeatherNeverFailed(wd) == FALSE
NdviNeverFailed(nd) == FALSE

(* if errors:, line 169 *)
ValidationFailed(errs) == errs # <<>>

(* if weather_data["errors"]:, line 179 *)
WeatherFailed(wd) == wd.errors # <<>>

(* if ndvi_data["errors"]:, line 190 *)
NdviFailed(nd) == nd.errors # <<>>

(* lines 174-178 raise nothing: json_['coordinates'][0][0] and [0][1] and  *)
(* json_['date'] exist.  Otherwise the except of line 198 answers.         *)
CanReadParameters(body) ==
    /\ body.mapping
    /\ body.coordinates.t = "list"
    /\ Len(body.coordinates.l) >= 1
    /\ body.coordinates.l[1].t = "list"
    /\ Len(body.coordinates.l[1].l) >= 2
    /\ body.date.t # "null"

(* line 178: the two positional arguments, coordinates[0][0] and           *)
(* coordinates[0][1], bound to get_open_meteo_weather's (lat, lon)         *)
WeatherArgs(coordinates) == <<coordinates.l[1].l[1], coordinates.l[1].l[2]>>

(* the URL get_data has requests.get fetch for `body` *)
WeatherCall(body) ==
    LET args == WeatherArgs(body.coordinates)
    IN  WeatherUrl(args[1], args[2], body.date)

Receive(body) ==
    /\ pc = "idle"
    /\ pc' = "Validating"
    /\ req' = body
    /\ response' = NewResponse
    /\ reply' = NoReply
    /\ weather_calls' = <<>>
    /\ ndvi_calls' = <<>>
    /\ stages' = <<>>
    /\ UNCHANGED <<errors, weather_data, ndvi_data, wresp, eeans, ee_initialized>>

Validate ==
    /\ pc = "Validating"
    /\ errors' = validate_request(req)
    /\ stages' = Append(stages, "validate")
    /\ IF ValidationFailed(errors')
       THEN /\ reply' = ErrorsReply(errors')
            /\ pc' = "Failed"
       ELSE /\ reply' = reply
            /\ pc' = "FetchingWeather"
    /\ UNCHANGED <<req, weather_data, ndvi_data, response, wresp, eeans,
                   ee_initialized, weather_calls, ndvi_calls>>

FetchWeather(api) ==
    /\ pc = "FetchingWeather"
    /\ IF ~CanReadParameters(req)
       THEN /\ reply' = ErrorReply
            /\ pc' = "Failed"
            /\ UNCHANGED <<weather_data, response, wresp, weather_calls, stages>>
       ELSE LET args == WeatherArgs(req.coordinates)
                wd == get_open_meteo_weather(args[1], args[2], req.date, api)
            IN  /\ weather_calls' = Append(weather_calls, WeatherCall(req))
                /\ wresp' = api
                /\ weather_data' = wd
                /\ stages' = Append(stages, "weather")
                /\ IF WeatherFailed(wd)
                   THEN /\ reply' = ErrorsReply(wd.errors)
                        /\ pc' = "Failed"
                        /\ response' = response
                   ELSE /\ response' = [response EXCEPT !.data = Update(@, wd.data)]
                        /\ reply' = reply
                        /\ pc' = "FetchingVegetation"
    /\ UNCHANGED <<req, errors, ndvi_data, eeans, ee_initialized, ndvi_calls>>

FetchVegetation(ans) ==
    /\ pc = "FetchingVegetation"
    /\ LET nd == get_ndvi_data(req.coordinates, req.date, ans)
       IN  /\ ndvi_calls' = Append(ndvi_calls, NdviQuery(req.coordinates, req.date))
           /\ ee_initialized' = LazilyInitialized(ee_initialized)
           /\ eeans' = ans
           /\ ndvi_data' = nd
           /\ stages' = Append(stages, "vegetation")
           /\ IF NdviFailed(nd)
              THEN /\ reply' = ErrorsReply(nd.errors)
                   /\ pc' = "Failed"
              ELSE /\ reply' = reply
                   /\ pc' = "Merging"
    /\ UNCHANGED <<req, errors, weather_data, response, wresp, weather_calls>>

(* lines 193-196 *)
Merge ==
    /\ pc = "Merging"
    /\ response' = [response EXCEPT !.data = Update(@, ndvi_data.data)]
    /\ reply' = SuccessReply(response')
    /\ stages' = Append(stages, "merge")
    /\ pc' = "Merged"
    /\ UNCHANGED <<req, errors, weather_data, ndvi_data, wresp, eeans,
                   ee_initialized, weather_calls, ndvi_calls>>

(* get_data has returned; the next request may come.  Nothing is reset    *)
(* here: the code assigns each local again before it reads it, and what an *)
(* earlier request left stays visible to anything that would read it.      *)
Close ==
    /\ pc \in {"Merged", "Failed"}
    /\ pc' = "idle"
    /\ UNCHANGED <<req, errors, weather_data, ndvi_data, response, reply, wresp,
                   eeans, ee_initialized, weather_calls, ndvi_calls, stages>>

---------------------------------------------------------------------------
(* The inputs drawn *)

Chars(y, m, d) == y \o <<"-">> \o m \o <<"-">> \o d

YearStrings == {<<"2", "0", "2", "4">>, <<"2", "0", "2", "3">>, <<"0", "0", "0", "0">>}
MonthStrings == {<<"0", "2">>, <<"2">>, <<"0", "6">>, <<"1", "3">>}
DayStrings == {<<"0", "1">>, <<"1">>, <<" ", "1">>, <<"2", "9">>, <<"3", "1">>, <<"3", "2">>}

Date20240601 == JStr(<<"2", "0", "2", "4", "-", "0", "6", "-", "0", "1">>)
Date202461 == JStr(<<"2", "0", "2", "4", "-", "6", "-", "1">>)
DateSlashes == JStr(<<"0", "6", "/", "0", "1", "/", "2", "0", "2", "4">>)
DateWithTime == JStr(<<"2", "0", "2", "4", "-", "0", "6", "-", "0", "1", "T">>)

(* request.json.get("date"): a string, a number, or None when missing *)
DateValues ==
    {JStr(Chars(y, m, d)) : y \in YearStrings, m \in MonthStrings, d \in DayStrings}
    \cup {DateSlashes, DateWithTime, JStr(<<>>), JInt(20240601), JNull}

PtA == JList(<<JFloat(10), JFloat(20)>>)
PtB == JList(<<JFloat(10), JFloat(21)>>)
PtC == JList(<<JFloat(11), JFloat(21)>>)
PtD == JList(<<JFloat(11), JFloat(20)>>)
IntPoint == JList(<<JInt(10), JInt(20)>>)
MixedPoint == JList(<<JFloat(10), JInt(20)>>)
ShortPoint == JList(<<JFloat(10)>>)
LongPoint == JList(<<JFloat(10), JFloat(20), JFloat(0)>>)
NonListPoint == JStr(<<"x">>)

MalformedPoints == {IntPoint, MixedPoint, ShortPoint, LongPoint, NonListPoint}

(* lists of at most MaxPoints points, at most MaxBad of them malformed *)
PointLists ==
    {c \in UNION {[1..n -> {PtA} \cup MalformedPoints] : n \in 0..MaxPoints} :
        Cardinality({i \in DOMAIN c : c[i] \in MalformedPoints}) <= MaxBad}

(* request.json.get("coordinates"): a list, another value, or None *)
CoordinateValues == {JList(c) : c \in PointLists} \cup {JStr(<<"x">>), JNull}

(* hourly series: n values a, the last one b *)
Ramp(n, a, b) == [i \in 1..n |-> IF i = n THEN b ELSE a]

SeriesLengths == {0, 1} \cup (HoursPerDay..(HoursPerDay + MaxExtra))

HourlySeries ==
    {Series(TRUE, Ramp(n, 2, b)) : n \in SeriesLengths, b \in {2, 7}}
    \cup {AbsentSeries}

WeatherResponses ==
    {ApiResponse(StatusOK, TRUE, TRUE, t, h, w, e) :
        t \in HourlySeries, h \in HourlySeries, w \in HourlySeries, e \in HourlySeries}
    \cup {ApiResponse(st, TRUE, TRUE, AbsentSeries, AbsentSeries, AbsentSeries, AbsentSeries) :
            st \in {404, 500}}
    \cup {ApiResponse(StatusOK, j, FALSE, AbsentSeries, AbsentSeries, AbsentSeries, AbsentSeries) :
            j \in BOOLEAN}

EEAnswers ==
    {EEAnswer(TRUE, FALSE, PyNone), EEAnswer(FALSE, FALSE, PyNone),
     EEAnswer(FALSE, TRUE, PyNone), EEAnswer(FALSE, TRUE, Num(3, 10)),
     EEAnswer(FALSE, TRUE, Num(7, 10))}

(* the requests and provider answers of the pipeline *)
PipelinePolygons ==
    {<<PtA, PtB, PtC, PtD>>, <<PtA, PtD, PtC, PtB, PtA>>, <<PtC, PtD, PtA, PtB>>,
     <<IntPoint, IntPoint, IntPoint, IntPoint>>, <<PtA, PtB, PtC>>,
     <<PtA, ShortPoint, NonListPoint, MixedPoint>>}

PipelineBodies ==
    {Body(JList(c), d) : c \in PipelinePolygons,
                         d \in {Date20240601, Date202461, DateSlashes, JNull}}
    \cup {Body(JNull, Date20240601), NotAMapping}

FullDay(b) == Series(TRUE, Ramp(HoursPerDay, 2, b))

PipelineWeather ==
    {ApiResponse(StatusOK, TRUE, TRUE, FullDay(2), FullDay(7), FullDay(2), FullDay(7)),
     ApiResponse(StatusOK, TRUE, TRUE, FullDay(7), FullDay(2), FullDay(2), AbsentSeries),
     ApiResponse(StatusOK, TRUE, TRUE, FullDay(2), Series(TRUE, <<>>), FullDay(2), FullDay(2)),
     ApiResponse(StatusOK, TRUE, TRUE, FullDay(2), FullDay(2), AbsentSeries, FullDay(2)),
     ApiResponse(StatusOK, FALSE, FALSE, AbsentSeries, AbsentSeries, AbsentSeries, AbsentSeries),
     ApiResponse(500, TRUE, TRUE, AbsentSeries, AbsentSeries, AbsentSeries, AbsentSeries)}

IdemBodies ==
    {Body(JList(<<PtA, PtB, PtC, PtD>>), Date20240601),
     Body(JList(<<PtC, PtD, PtA, PtB>>), Date20240601),
     Body(JList(<<IntPoint, PtB, PtC, PtD>>), DateSlashes)}

IdemWeather ==
    {ApiResponse(StatusOK, TRUE, TRUE, FullDay(2), FullDay(7), FullDay(2), FullDay(7)),
     ApiResponse(500, TRUE, TRUE, AbsentSeries, AbsentSeries, AbsentSeries, AbsentSeries)}

IdemEE == {EEAnswer(FALSE, FALSE, PyNone), EEAnswer(FALSE, TRUE, Num(3, 10))}

---------------------------------------------------------------------------
(* The state before the first request: lines 7-9 have run *)

NoResult == [data |-> EmptyDict, errors |-> <<>>]
NoApiResponse == ApiResponse(0, FALSE, FALSE, AbsentSeries, AbsentSeries, AbsentSeries, AbsentSeries)
NoEEAnswer == EEAnswer(FALSE, FALSE, PyNone)
EmptyMap == [x \in {} |-> 0]

Start(at, body, api, ans) ==
    /\ pc = at
    /\ req = body
    /\ errors = <<>>
    /\ weather_data = NoResult
    /\ ndvi_data = NoResult
    /\ response = NewResponse
    /\ reply = NoReply
    /\ wresp = api
    /\ eeans = ans
    /\ ee_initialized = TRUE
    /\ weather_calls = <<>>
    /\ ndvi_calls = <<>>
    /\ stages = <<>>
    /\ weatherMemo = EmptyMap
    /\ ndviMemo = EmptyMap
    /\ seen = EmptyMap
    /\ served = 0

Init == Start("idle", NotAMapping, NoApiResponse, NoEEAnswer)

ghost == <<weatherMemo, ndviMemo, seen, served>>

(* The server: one request after the other, any provider answer *)
Next ==
    \/ \E body \in PipelineBodies : Receive(body) /\ UNCHANGED ghost
    \/ Validate /\ UNCHANGED ghost
    \/ \E api \in PipelineWeather : FetchWeather(api) /\ UNCHANGED ghost
    \/ \E ans \in EEAnswers : FetchVegetation(ans) /\ UNCHANGED ghost
    \/ Merge /\ UNCHANGED ghost
    \/ Close /\ UNCHANGED ghost

Spec == Init /\ [][Next]_vars

---------------------------------------------------------------------------
(* validate_request on every body drawn *)

InitValidate ==
    \/ \E c \in CoordinateValues, d \in DateValues :
          Start("call", Body(c, d), NoApiResponse, NoEEAnswer)
    \/ Start("call", NotAMapping, NoApiResponse, NoEEAnswer)

ApplyValidate ==
    /\ pc = "call"
    /\ errors' = validate_request(req)
    /\ pc' = "returned"
    /\ UNCHANGED <<req, weather_data, ndvi_data, response, reply, wresp, eeans,
                   ee_initialized, weather_calls, ndvi_calls, stages, ghost>>

SpecValidate == InitValidate /\ [][ApplyValidate]_vars

---------------------------------------------------------------------------
(* The two reducers on every provider answer drawn *)

InitReducers ==
    \/ \E api \in WeatherResponses : Start("call_weather", NotAMapping, api, NoEEAnswer)
    \/ \E ans \in EEAnswers : Start("call_ndvi", NotAMapping, NoApiResponse, ans)

ApplyWeather ==
    /\ pc = "call_weather"
    /\ weather_data' = get_open_meteo_weather(PtA.l[1], PtA.l[2], Date20240601, wresp)
    /\ pc' = "returned_weather"
    /\ UNCHANGED <<req, errors, ndvi_data, response, reply, wresp, eeans,
                   ee_initialized, weather_calls, ndvi_calls, stages, ghost>>

ApplyNdvi ==
    /\ pc = "call_ndvi"
    /\ ndvi_data' = get_ndvi_data(JList(<<PtA, PtB, PtC, PtD>>), Date20240601, eeans)
    /\ ee_initialized' = LazilyInitialized(ee_initialized)
    /\ pc' = "returned_ndvi"
    /\ UNCHANGED <<req, errors, weather_data, response, reply, wresp, eeans,
                   weather_calls, ndvi_calls, stages, ghost>>

NextReducers == ApplyWeather \/ ApplyNdvi

SpecReducers == InitReducers /\ [][NextReducers]_vars

---------------------------------------------------------------------------
(* The server with deterministic providers: a provider that has answered   *)
(* a query answers it the same way again.  seen keeps the first reply to   *)
(* each body.                                                              *)

WeatherKey ==
    IF CanReadParameters(req) THEN WeatherCall(req) ELSE WeatherUrl(JNull, JNull, JNull)

Remember(memo, key, value) ==
    IF key \in DOMAIN memo THEN memo ELSE (key :> value) @@ memo

IdemReceive ==
    /\ served < MaxRequests
    /\ \E body \in IdemBodies : Receive(body)
    /\ served' = served + 1
    /\ UNCHANGED <<weatherMemo, ndviMemo, seen>>

IdemFetchWeather ==
    /\ \E api \in IdemWeather :
          /\ WeatherKey \in DOMAIN weatherMemo => api = weatherMemo[WeatherKey]
          /\ FetchWeather(api)
          /\ weatherMemo' = Remember(weatherMemo, WeatherKey, api)
    /\ UNCHANGED <<ndviMemo, seen, served>>

IdemFetchVegetation ==
    /\ \E ans \in IdemEE :
          LET key == NdviQuery(req.coordinates, req.date)
          IN  /\ key \in DOMAIN ndviMemo => ans = ndviMemo[key]
              /\ FetchVegetation(ans)
              /\ ndviMemo' = Remember(ndviMemo, key, ans)
    /\ UNCHANGED <<weatherMemo, seen, served>>

IdemClose ==
    /\ Close
    /\ seen' = Remember(seen, req, reply)
    /\ UNCHANGED <<weatherMemo, ndviMemo, served>>

NextIdem ==
    \/ IdemReceive
    \/ Validate /\ UNCHANGED ghost
    \/ IdemFetchWeather
    \/ IdemFetchVegetation
    \/ Merge /\ UNCHANGED ghost
    \/ IdemClose

SpecIdem == Init /\ [][NextIdem]_vars

---------------------------------------------------------------------------
(* Properties of the pipeline, under Spec *)

StageOrder == <<"validate", "weather", "vegetation", "merge">>

FiveFields ==
    {"mean_temperature_2m_C", "mean_humidity_2m_%", "mean_wind_speed_10m_m_s",
     "sum_et0_mm", "ndvi_mean"}

(* the stage an error string comes from *)
Origin(e) ==
    IF e.prefix = "get_open_meteo_weather" THEN "weather"
    ELSE IF e.prefix = "get_ndvi_data" THEN "vegetation"
    ELSE "validate"

\* C1: a request whose validation returned a non-empty error list is answered
\* with status 400 and {"errors": <the validation errors>}, and no request
\* goes to the weather provider or to the imagery provider during it.
C1_RejectedWithoutProviderCall ==
    (stages # <<>> /\ errors # <<>>) =>
        /\ pc \in {"Failed", "idle"}
        /\ stages = <<"validate">>
        /\ reply.status = 400
        /\ reply.kind = "errors"
        /\ reply.errors = errors
        /\ reply.data = EmptyDict
        /\ weather_calls = <<>>
        /\ ndvi_calls = <<>>

C1_Witness ==
    /\ pc = "Failed"
    /\ stages = <<"validate">>
    /\ Len(errors) >= 2
    /\ reply.errors = errors

\* C2: the stages of a request run in the order validation, weather fetch,
\* vegetation fetch, merge, each at most once, and a stage starts only after
\* every earlier stage returned an empty error list; each fetch stage sends
\* exactly one request to its provider.
C2_StagesInOrder ==
    /\ Len(stages) <= Len(StageOrder)
    /\ stages = SubSeq(StageOrder, 1, Len(stages))
    /\ Len(stages) >= 2 => errors = <<>>
    /\ Len(stages) >= 3 => weather_data.errors = <<>>
    /\ Len(stages) >= 4 => ndvi_data.errors = <<>>
    /\ Len(weather_calls) = (IF Len(stages) >= 2 THEN 1 ELSE 0)
    /\ Len(ndvi_calls) = (IF Len(stages) >= 3 THEN 1 ELSE 0)

C2_Witness ==
    /\ pc = "Failed"
    /\ stages = <<"validate", "weather">>
    /\ weather_data.errors # <<>>
    /\ ndvi_calls = <<>>

\* C3: a reply has status 200 only when validation and both fetches returned
\* no error, and then its data has exactly the five fields; every other reply
\* has status 400 and none of the five fields.
C3_NoPartialSuccess ==
    reply.kind # "none" =>
        IF reply.status = 200
        THEN /\ reply.kind = "success"
             /\ stages = StageOrder
             /\ errors = <<>>
             /\ weather_data.errors = <<>>
             /\ ndvi_data.errors = <<>>
             /\ DOMAIN reply.data = FiveFields
        ELSE /\ reply.status = 400
             /\ DOMAIN reply.data \cap FiveFields = {}
             /\ "merge" \notin {stages[i] : i \in DOMAIN stages}

C3_Witness ==
    /\ pc = "Merged"
    /\ reply.status = 200
    /\ DOMAIN reply.data = FiveFields

\* C4: a 400 reply with the key "errors" carries the error list of exactly
\* one stage, whole: the list of validate_request, or that of
\* get_open_meteo_weather, or that of get_ndvi_data, and all its strings come
\* from that stage.
C4_OneStagePerErrorReply ==
    reply.kind = "errors" =>
        /\ reply.status = 400
        /\ reply.errors # <<>>
        /\ \/ stages = <<"validate">> /\ reply.errors = errors
           \/ stages = <<"validate", "weather">> /\ reply.errors = weather_data.errors
           \/ stages = <<"validate", "weather", "vegetation">>
                /\ reply.errors = ndvi_data.errors
        /\ \A i \in DOMAIN reply.errors : Origin(reply.errors[i]) = stages[Len(stages)]

C4_Witness ==
    /\ pc = "Failed"
    /\ reply.kind = "errors"
    /\ stages = <<"validate", "weather", "vegetation">>
    /\ reply.errors = ndvi_data.errors

\* C6: the weather provider is asked for the latitude of the first polygon
\* point (its second value) and the longitude of the first polygon point
\* (its first value).
C6_WeatherAtFirstPoint ==
    \A i \in DOMAIN weather_calls :
        /\ weather_calls[i].latitude = req.coordinates.l[1].l[2]
        /\ weather_calls[i].longitude = req.coordinates.l[1].l[1]

---------------------------------------------------------------------------
(* Properties of validate_request, under SpecValidate *)

WellFormedPoint(point) ==
    /\ point.t = "list"
    /\ Len(point.l) = 2
    /\ \A k \in 1..2 : point.l[k].t = "float"

StructureOK(coordinates) ==
    coordinates.t = "list" /\ Len(coordinates.l) >= 4

(* a string YYYY-MM-DD, ten characters, that names a day of the calendar *)
ExactDate(date) ==
    /\ date.t = "str"
    /\ Len(date.s) = 10
    /\ \A i \in {1, 2, 3, 4, 6, 7, 9, 10} : date.s[i] \in Digits
    /\ date.s[5] = "-"
    /\ date.s[8] = "-"
    /\ LET y == ToInt(SubSeq(date.s, 1, 4))
           m == ToInt(SubSeq(date.s, 6, 7))
           d == ToInt(SubSeq(date.s, 9, 10))
       IN  y >= 1 /\ m \in 1..12 /\ d >= 1 /\ d <= DaysInMonth(y, m)

ValidInput(body) ==
    /\ body.mapping
    /\ StructureOK(body.coordinates)
    /\ \A i \in DOMAIN body.coordinates.l : WellFormedPoint(body.coordinates.l[i])
    /\ ExactDate(body.date)

\* C5: validate_request returns the empty list exactly for the valid inputs:
\* a list of at least 4 points, each a list of exactly two floats, and a date
\* string of the exact pattern YYYY-MM-DD naming a real calendar date.
C5_EmptyIffValid ==
    pc = "returned" => (errors = <<>> <=> ValidInput(req))

\* C10: for a mapping body the number of errors is 1 when the structural
\* check fails, else the number of malformed points, plus 1 when the date is
\* invalid.
C10_ErrorCount ==
    (pc = "returned" /\ req.mapping) =>
        Len(errors) =
            (IF ~StructureOK(req.coordinates) THEN 1
             ELSE Cardinality({i \in DOMAIN req.coordinates.l :
                                  ~WellFormedPoint(req.coordinates.l[i])}))
            + (IF ExactDate(req.date) THEN 0 ELSE 1)

---------------------------------------------------------------------------
(* Properties of the reducers, under SpecReducers *)

RECURSIVE SumUpTo(_, _)
SumUpTo(s, k) == IF k = 0 THEN 0 ELSE s[k] + SumUpTo(s, k - 1)

Used(s) == IF Len(s) < 24 THEN Len(s) ELSE 24

Usable(series) == series.present /\ series.v # <<>>

\* C7: for a 200 answer whose temperature, humidity and wind-speed series
\* are non-empty, get_open_meteo_weather returns no error, each mean is the
\* mean of the first 24 entries of its series, and sum_et0_mm is the sum of
\* the first 24 entries of the evapotranspiration series, 0 when it is absent.
C7_WeatherStatistics ==
    (/\ pc = "returned_weather"
     /\ wresp.status = 200 /\ wresp.json /\ wresp.hourly
     /\ Usable(wresp.temperature_2m)
     /\ Usable(wresp.relativehumidity_2m)
     /\ Usable(wresp.wind_speed_10m)) =>
        LET t == wresp.temperature_2m.v
            h == wresp.relativehumidity_2m.v
            w == wresp.wind_speed_10m.v
            e == wresp.et0_fao_evapotranspiration
        IN  /\ weather_data.errors = <<>>
            /\ DOMAIN weather_data.data = FiveFields \ {"ndvi_mean"}
            /\ weather_data.data["mean_temperature_2m_C"] = Num(SumUpTo(t, Used(t)), Used(t))
            /\ weather_data.data["mean_humidity_2m_%"] = Num(SumUpTo(h, Used(h)), Used(h))
            /\ weather_data.data["mean_wind_speed_10m_m_s"] = Num(SumUpTo(w, Used(w)), Used(w))
            /\ weather_data.data["sum_et0_mm"] =
                  Num(IF e.present THEN SumUpTo(e.v, Used(e.v)) ELSE 0, 1)

C7_Witness ==
    /\ pc = "returned_weather"
    /\ Len(wresp.temperature_2m.v) > 24
    /\ wresp.temperature_2m.v[Len(wresp.temperature_2m.v)] = 7
    /\ Usable(wresp.relativehumidity_2m)
    /\ Usable(wresp.wind_speed_10m)
    /\ ~wresp.et0_fao_evapotranspiration.present
    /\ weather_data.errors = <<>>
    /\ weather_data.data["sum_et0_mm"] = Num(0, 1)

(* the two shapes a reducer may return *)
SuccessShape(r) == r.errors = <<>> /\ DOMAIN r.data # {}
FailureShape(r, operation) ==
    r.data = EmptyDict /\ Len(r.errors) = 1 /\ r.errors[1].prefix = operation

\* C9: each reducer returns non-empty data with no error, or empty data with
\* exactly one error prefixed by its name; the weather reducer the latter for
\* a non-200 status, a missing required series or an empty one, the
\* vegetation reducer for no matching scene or a provider failure.
C9_ReducerShapes ==
    /\ pc = "returned_weather" =>
        /\ SuccessShape(weather_data) \/ FailureShape(weather_data, "get_open_meteo_weather")
        /\ (\/ wresp.status # 200
            \/ ~Usable(wresp.temperature_2m)
            \/ ~Usable(wresp.relativehumidity_2m)
            \/ ~Usable(wresp.wind_speed_10m))
           => FailureShape(weather_data, "get_open_meteo_weather")
    /\ pc = "returned_ndvi" =>
        /\ SuccessShape(ndvi_data) \/ FailureShape(ndvi_data, "get_ndvi_data")
        /\ (eeans.failure \/ ~eeans.scene) => FailureShape(ndvi_data, "get_ndvi_data")

C9_Witness ==
    /\ pc = "returned_weather"
    /\ wresp.status = 200
    /\ wresp.temperature_2m.present
    /\ wresp.temperature_2m.v = <<>>
    /\ FailureShape(weather_data, "get_open_meteo_weather")

---------------------------------------------------------------------------
(* Idempotence, under SpecIdem *)

\* C8: with deterministic providers, a body that was answered before gets
\* the same status and the same response body again, whatever requests came
\* in between.
C8_Idempotent ==
    (pc \in {"Merged", "Failed"} /\ req \in DOMAIN seen) => reply = seen[req]

C8_Witness ==
    /\ pc = "Merged"
    /\ req \in DOMAIN seen
    /\ Cardinality(DOMAIN seen) >= 2
    /\ reply = seen[req]

====
